---- MODULE Spec2Model ----
(***************************************************************************)
(* Model of the Voice Form Filler conversation engine:                     *)
(*   - ConversationStateMachine (background service worker),               *)
(*   - FormAnalyzer (content script: scan, recorder, writer),              *)
(* as an event-driven state machine.  Every await of the JavaScript code   *)
(* is a suspension point: the pending continuation (or timer) is a task in *)
(* the bag `tasks`, and one action runs a handler or a continuation from   *)
(* one suspension point to the next.                                       *)
(***************************************************************************)
EXTENDS Integers, Sequences, FiniteSets, Bags, TLC

VARIABLES
  currentState,       \* this.currentState
  detectedFields,     \* this.detectedFields (engine)
  fieldResponses,     \* this.fieldResponses, keyed by humanLabel
  currentFieldIndex,  \* this.currentFieldIndex (0-based, as in the code)
  retryCount,         \* this.retryCount
  cFields,            \* FormAnalyzer.detectedFields (content script)
  isRecording,        \* FormAnalyzer.isRecording
  page,               \* what FormAnalyzer.fillForm did per field, if the last action ran it
  tasks,              \* bag of pending continuations and timers
  events,             \* notifyPopup messages sent by the last action
  stateLog,           \* state before the last action, then every setState of it
  last,               \* the last action and the task it resumed
  passStart,          \* the value last assigned (not incremented) to the cursor
  lastInvalid,        \* labels reported invalid by the last validation pass
  cycles,             \* questions asked and answers received in the session
  popupOpen,          \* a popup received the messages the last action sent
  stopBtn,            \* PopupController.elements.stopBtn is shown, for a popup open throughout
  question,           \* the text generateQuestion returned last (<<>>: none yet)
  random,             \* Math.floor(Math.random() * templates.length) of that call
  cmds                \* number of commands/messages delivered so far

vars == <<currentState, detectedFields, fieldResponses, currentFieldIndex,
          retryCount, cFields, isRecording, page, tasks, events, stateLog,
          last, passStart, lastInvalid, cycles, popupOpen, stopBtn, question, random,
          cmds>>

(***************************************************************************)
(* Bounds of the model.                                                    *)
(***************************************************************************)
MaxTasks == 2      \* pending continuations and timers at any instant
MaxCmds == 2       \* commands and messages delivered in one behaviour

(***************************************************************************)
(* Program constants.                                                      *)
(***************************************************************************)
maxRetries == 3

States == {"IDLE", "ANALYZING", "QUESTIONING", "VALIDATING", "CORRECTING",
           "FILLING", "COMPLETED", "ERROR"}

(***************************************************************************)
(* Inputs: the field lists a scan can deliver, transcripts, validation     *)
(* results.                                                                *)
(***************************************************************************)
Undefined == "undefined"     \* JavaScript undefined, where a string is read

FEmail == [humanLabel |-> "Email", type |-> "email", name |-> "email", id |-> "f1"]
FPhone == [humanLabel |-> "Phone", type |-> "tel", name |-> "phone", id |-> "f2"]
FEmail2 == [humanLabel |-> "Email", type |-> "text", name |-> "email2", id |-> "f3"]

Labels == {"Email", "Phone"}

FieldLists == { <<>>, <<FEmail>>, <<FEmail, FPhone>>, <<FEmail, FEmail2>> }

Texts == {"", "t"}           \* transcribed text: empty or not

NoResponse == [has |-> FALSE, original |-> Undefined, normalized |-> Undefined,
               valid |-> "unknown", reason |-> Undefined, fieldId |-> Undefined,
               fieldType |-> Undefined]

\* One entry of validationResult.results, as the service returns it.
ResultKinds == { [valid |-> TRUE, normalized |-> "n", reason |-> Undefined],
                 [valid |-> TRUE, normalized |-> "", reason |-> Undefined],
                 [valid |-> FALSE, normalized |-> "n", reason |-> "r"] }


(***************************************************************************)
(* The engine as a record m, threaded through the synchronous code of a    *)
(* handler: st/fields/resp/idx/retry are the object's fields, ev the       *)
(* messages sent with notifyPopup, log the setState calls, new the         *)
(* continuations and timers the code leaves pending, threw whether an      *)
(* exception is propagating, filled what the writer did in this action,    *)
(* from the value last assigned to the cursor by an assignment, inv the    *)
(* labels the last validation pass of the session reported invalid, cyc    *)
(* the count of QUESTION_ASKED and ANSWER_RECEIVED messages of the session *)
(* for as long as nothing has failed in it, popup whether a popup receives *)
(* the messages.                                                           *)
(***************************************************************************)
Ev(type, field, current) == [type |-> type, field |-> field, current |-> current]

Task(kind, data) == [kind |-> kind, data |-> data]

\* no question asked, no answer received, nothing failed
NoCycles == [asked |-> 0, answered |-> 0, failed |-> FALSE]

\* a failure was reported or a field found invalid: counting has stopped
Failed == [asked |-> 0, answered |-> 0, failed |-> TRUE]

\* the count after message was sent; it saturates above the list's length
Counted(c, message, fields) ==
  LET inc(n) == IF n > Len(fields) THEN n ELSE n + 1
  IN IF c.failed \/ message.type = "ERROR" THEN Failed
     ELSE IF message.type = "QUESTION_ASKED" THEN [c EXCEPT !.asked = inc(@)]
     ELSE IF message.type = "ANSWER_RECEIVED" THEN [c EXCEPT !.answered = inc(@)]
     ELSE c

EngineWith(listening) ==
  [st |-> currentState, fields |-> detectedFields, resp |-> fieldResponses,
   idx |-> currentFieldIndex, retry |-> retryCount,
   ev |-> <<>>, log |-> <<currentState>>, new |-> <<>>, threw |-> FALSE,
   filled |-> <<>>, from |-> passStart, inv |-> lastInvalid, cyc |-> cycles,
   popup |-> listening]

\* the engine as the handler of a step finds it
Engine == EngineWith(popupOpen')

setState(m, newState) == [m EXCEPT !.st = newState, !.log = Append(@, newState)]

\* a variant in which a message that nobody receives raises an exception in
\* the handler that sent it
notifyPopupUncaught(m, message) ==
  [m EXCEPT !.ev = Append(@, message), !.cyc = Counted(@, message, m.fields),
            !.threw = @ \/ ~m.popup]

\* chrome.runtime.sendMessage(message).catch(() => {}): the message is sent;
\* with no popup listening the promise is rejected and the rejection ignored
notifyPopup(m, message) ==
  [m EXCEPT !.ev = Append(@, message), !.cyc = Counted(@, message, m.fields)]

Pending(m, kind, data) == [m EXCEPT !.new = Append(@, Task(kind, data))]

Throw(m) == [m EXCEPT !.threw = TRUE]

Caught(m) == [m EXCEPT !.threw = FALSE]

\* Object.entries(this.fieldResponses) as the validation request:
\* fields[label] = response.original, field_types[label] = response.fieldType
ValidationRequest(resp) ==
  { <<l, resp[l].original, resp[l].fieldType>> : l \in {k \in Labels : resp[k].has} }

\* fillData[label] = {normalized, ...} for every entry of this.fieldResponses
FillData(resp) ==
  { <<l, resp[l].normalized>> : l \in {k \in Labels : resp[k].has} }

\* fillForm up to its first await (chrome.tabs.query)
fillForm(m) ==
  Pending(notifyPopup(setState(m, "FILLING"), Ev("STATUS_UPDATE", "", 0)),
          "fillQuery", {})

\* one request per entry of S
RECURSIVE PendingEach(_, _)
PendingEach(m, S) ==
  IF S = {} THEN m
  ELSE LET e == CHOOSE x \in S : TRUE
       IN PendingEach(Pending(m, "validate", {e}), S \ {e})

\* a variant that sends one validation request per stored answer
validateResponsesPerField(m) ==
  LET m1 == [setState(m, "VALIDATING") EXCEPT !.retry = 0]
      m2 == notifyPopup(m1, Ev("VALIDATION_STARTED", "", 0))
  IN PendingEach(m2, ValidationRequest(m2.resp))

\* validateResponses up to its await of fetch(/validate)
validateResponses(m) ==
  LET m1 == [setState(m, "VALIDATING") EXCEPT !.retry = 0]
      m2 == notifyPopup(m1, Ev("VALIDATION_STARTED", "", 0))
  IN Pending(m2, "validate", ValidationRequest(m2.resp))

\* askCurrentQuestion up to its await of speakQuestion's fetch(/tts)
askCurrentQuestion(m) ==
  IF m.st \notin {"QUESTIONING", "CORRECTING"} THEN m
  ELSE IF m.idx + 1 > Len(m.fields) THEN validateResponses(m)
  ELSE Pending(notifyPopup(m, Ev("QUESTION_ASKED",
                                 m.fields[m.idx + 1].humanLabel, m.idx + 1)),
               "tts", {})

startConversation(m) ==
  LET m1 == [setState(m, "QUESTIONING") EXCEPT
               !.idx = 0, !.from = 0, !.inv = {}, !.cyc = NoCycles,
               !.resp = [l \in Labels |-> NoResponse]]
      m2 == notifyPopup(m1, Ev("CONVERSATION_STARTED", "", Len(m1.fields)))
  IN askCurrentQuestion(m2)

\* processVoiceResponse up to its await of fetch(/transcribe)
processVoiceResponse(m) == Pending(m, "transcribe", {})

\* a variant of the catch block that gives up when the counter reaches
\* maxRetries
processVoiceCatchStrict(m) ==
  LET m1 == [notifyPopup(m, Ev("ERROR", "", 0)) EXCEPT !.retry = @ + 1]
  IN IF m1.retry < maxRetries
       THEN Pending(m1, "askTimer", {})
       ELSE setState(m1, "ERROR")

\* the catch block of processVoiceResponse
processVoiceCatch(m) ==
  LET m1 == [notifyPopup(m, Ev("ERROR", "", 0)) EXCEPT !.retry = @ + 1]
  IN IF m1.retry <= maxRetries
       THEN Pending(m1, "askTimer", {})
       ELSE setState(m1, "ERROR")

\* this.fieldResponses[currentField.humanLabel] = {...} and ANSWER_RECEIVED
storeResponse(m, text) ==
  LET currentField == m.fields[m.idx + 1]
      m1 == [m EXCEPT !.resp[currentField.humanLabel] =
               [has |-> TRUE, original |-> text, normalized |-> text,
                valid |-> "unknown", reason |-> Undefined,
                fieldId |-> currentField.id, fieldType |-> currentField.type]]
  IN notifyPopup(m1, Ev("ANSWER_RECEIVED", currentField.humanLabel, m1.idx + 1))

\* a variant that leaves the cursor where it is
nextFieldStay(m) ==
  IF m.idx < Len(m.fields)
    THEN Pending(m, "askTimer", {})
    ELSE validateResponses(m)

\* this.currentFieldIndex++, then the next question after 1 s or validation
nextField(m) ==
  LET m1 == [m EXCEPT !.idx = @ + 1]
  IN IF m1.idx < Len(m1.fields)
       THEN Pending(m1, "askTimer", {})
       ELSE validateResponses(m1)

\* a variant that moves on to the next field when the transcription failed
processVoiceDoneSkip(m, r) ==
  IF m.idx + 1 > Len(m.fields) THEN processVoiceCatch(m)
  ELSE IF ~r.ok THEN nextField(notifyPopup(m, Ev("ERROR", "", 0)))
  ELSE nextField(storeResponse(m, r.text))

\* processVoiceResponse after fetch(/transcribe) has settled:
\* r.ok = FALSE (rejected or not ok) or r.text the transcribed text
processVoiceDone(m, r) ==
  IF ~r.ok \/ m.idx + 1 > Len(m.fields)
    THEN processVoiceCatch(m)
    ELSE nextField(storeResponse(m, r.text))

\* this.detectedFields.find(f => f.humanLabel === fieldName): 1-based, 0 = none
FindField(fields, label) ==
  LET hits == {i \in 1..Len(fields) : fields[i].humanLabel = label}
  IN IF hits = {} THEN 0 ELSE CHOOSE i \in hits : \A j \in hits : i <= j

\* the entries of results that startCorrection pushes to invalidFields, in order
InvalidFields(fields, results) ==
  SelectSeq(results, LAMBDA e : ~e.valid /\ FindField(fields, e.label) # 0)

startCorrection(m, results) ==
  LET m1 == setState(m, "CORRECTING")
      invalidFields == InvalidFields(m1.fields, results)
  IN IF invalidFields = <<>>
       THEN Throw(m1)        \* invalidFields[0].field: TypeError
       ELSE LET first == FindField(m1.fields, invalidFields[1].label) - 1
            IN askCurrentQuestion([m1 EXCEPT !.idx = first, !.from = first])

\* result.normalized || result.original: the service returns no `original`
Normalized(e) == IF e.normalized = "" THEN Undefined ELSE e.normalized

\* the merge loop of validateResponses over Object.entries(results)
MergeResults(resp, results) ==
  [l \in Labels |->
     IF resp[l].has /\ \E i \in 1..Len(results) : results[i].label = l
       THEN LET e == results[CHOOSE i \in 1..Len(results) : results[i].label = l]
            IN [resp[l] EXCEPT !.normalized = Normalized(e),
                               !.valid = IF e.valid THEN "yes" ELSE "no",
                               !.reason = e.reason]
       ELSE resp[l]]

\* the labels whose entry of the reply has valid = false
InvalidLabels(results) ==
  {results[i].label : i \in {j \in 1..Len(results) : ~results[j].valid}}

AllValid(results) == \A i \in 1..Len(results) : results[i].valid

\* validateResponses after a successful reply: merge, VALIDATION_COMPLETED,
\* then fillForm or startCorrection; an exception is caught by its catch block
validateMerged(m, r) ==
  LET m1 == [m EXCEPT !.resp = MergeResults(m.resp, r.results),
                      !.inv = InvalidLabels(r.results),
                      !.cyc = IF AllValid(r.results) THEN @ ELSE Failed]
      m2 == notifyPopup(m1, Ev("VALIDATION_COMPLETED", "", 0))
      m3 == IF AllValid(r.results) THEN fillForm(m2)
            ELSE startCorrection(m2, r.results)
  IN IF m3.threw
       THEN fillForm(notifyPopup(Caught(m3), Ev("ERROR", "", 0)))
       ELSE m3

\* a variant that calls the service again when the request failed
validateDoneRetry(m, r) ==
  IF ~r.ok
    THEN Pending(notifyPopup(m, Ev("ERROR", "", 0)), "validate",
                 ValidationRequest(m.resp))
    ELSE validateMerged(m, r)

\* validateResponses after fetch(/validate) has settled:
\* r.ok = FALSE (rejected or not ok) or r.results the entries of the reply,
\* in its key order
validateDone(m, r) ==
  IF ~r.ok
    THEN fillForm(notifyPopup(m, Ev("ERROR", "", 0)))
    ELSE validateMerged(m, r)


(***************************************************************************)
(* Collaborator replies.                                                   *)
(***************************************************************************)
TranscribeReplies ==
  {[ok |-> FALSE, text |-> ""]} \cup {[ok |-> TRUE, text |-> x] : x \in Texts}

Entries(L) ==
  {[label |-> l, valid |-> k.valid, normalized |-> k.normalized,
    reason |-> k.reason] : l \in L, k \in ResultKinds}

\* the result maps the service can return for a request: an entry for any
\* subset of the requested labels, in any key order
ResultMaps(L) ==
  {s \in UNION {[1..n -> Entries(L)] : n \in 0..Cardinality(L)} :
     \A i, j \in 1..Len(s) : i # j => s[i].label # s[j].label}

ValidateReplies(req) ==
  {[ok |-> FALSE, results |-> <<>>]}
    \cup {[ok |-> TRUE, results |-> s] : s \in ResultMaps({e[1] : e \in req})}

(***************************************************************************)
(* Pending work.  A task is [kind, data, old]: old is history, set when a  *)
(* later start/stop/clear command abandons the session the task belongs to *)
(* (the code holds no such flag).                                          *)
(***************************************************************************)
NoTask == [kind |-> "none", data |-> {}, old |-> FALSE]

WithOld(t, old) == [kind |-> t.kind, data |-> t.data, old |-> old]

RECURSIVE BagOfSeq(_, _)
BagOfSeq(s, old) ==
  IF s = <<>> THEN EmptyBag
  ELSE SetToBag({WithOld(Head(s), old)}) (+) BagOfSeq(Tail(s), old)

Count(B, t) == IF t \in DOMAIN B THEN B[t] ELSE 0

\* every pending task now belongs to an abandoned session
Abandon(B) ==
  LET S == {WithOld(t, TRUE) : t \in DOMAIN B}
  IN [u \in S |-> Count(B, u) + Count(B, WithOld(u, FALSE))]

PendingTasks(kind) == {t \in DOMAIN tasks : t.kind = kind}

\* Write the engine back, remove the resumed task t, add what m left pending.
\* PopupController.toggleButtons(processing): the Stop button is shown
\* exactly when processing
toggleButtons(processing) == processing

\* PopupController.stopProcess (the Stop button was clicked)
stopProcess == toggleButtons(FALSE)

\* PopupController.handleMessage, as far as the Stop button goes
popupHandleMessage(stop, message) ==
  IF message.type = "CONVERSATION_STARTED" THEN toggleButtons(TRUE)
  ELSE IF message.type \in {"FORM_FILLED", "ERROR"} THEN toggleButtons(FALSE)
  ELSE stop

\* the popup handles the messages of an action in the order they were sent
RECURSIVE popupHandleAll(_, _)
popupHandleAll(stop, messages) ==
  IF messages = <<>> THEN stop
  ELSE popupHandleAll(popupHandleMessage(stop, Head(messages)), Tail(messages))

Commit(m, op, t, abandon) ==
  /\ popupOpen' \in BOOLEAN
  /\ \E e \in {m} :        \* the handler has run: e is the engine it leaves
       /\ e.ev = <<>> => ~popupOpen'
       /\ currentState' = e.st
       /\ detectedFields' = e.fields
       /\ fieldResponses' = e.resp
       /\ currentFieldIndex' = e.idx
       /\ retryCount' = e.retry
       /\ events' = e.ev
       /\ stateLog' = e.log
       /\ last' = [op |-> op, old |-> t.old]
       /\ page' = e.filled
       /\ passStart' = e.from
       /\ lastInvalid' = e.inv
       /\ cycles' = e.cyc
       /\ stopBtn' = popupHandleAll(IF op = "StopProcessing" THEN stopProcess
                                                             ELSE stopBtn, e.ev)
       /\ tasks' = LET base == IF abandon THEN Abandon(tasks) ELSE tasks
                       rest == IF t = NoTask THEN base ELSE base (-) SetToBag({t})
                   IN rest (+) BagOfSeq(e.new, t.old)
       /\ BagCardinality(tasks') <= MaxTasks
  /\ UNCHANGED <<question, random>>

Command == /\ cmds < MaxCmds
           /\ cmds' = cmds + 1

(***************************************************************************)
(* Commands and messages: ConversationStateMachine.handleMessage           *)
(***************************************************************************)
\* START_PROCESSING: startProcessing up to its await of ANALYZE_PAGE
startProcessing(m) ==
  LET m1 == setState(m, "ANALYZING")
      m2 == notifyPopup(m1, Ev("STATUS_UPDATE", "", 0))
  IN Pending(m2, "scan", {})

StartProcessing ==
  /\ Command
  /\ Commit(startProcessing(Engine), "StartProcessing", NoTask, TRUE)
  /\ UNCHANGED <<cFields, isRecording>>

stopProcessing(m) ==
  notifyPopup([setState(m, "IDLE") EXCEPT
                 !.idx = 0, !.from = 0, !.resp = [l \in Labels |-> NoResponse],
                 !.retry = 0, !.inv = {}, !.cyc = NoCycles],
              Ev("STATUS_UPDATE", "stopped", 0))

StopProcessing ==
  /\ Command
  /\ Commit(stopProcessing(Engine), "StopProcessing", NoTask, TRUE)
  /\ UNCHANGED <<cFields, isRecording>>

clearData(m) ==
  [setState(m, "IDLE") EXCEPT
     !.fields = <<>>, !.resp = [l \in Labels |-> NoResponse],
     !.idx = 0, !.from = 0, !.retry = 0, !.inv = {}, !.cyc = NoCycles]

ClearData ==
  /\ Command
  /\ Commit(clearData(Engine), "ClearData", NoTask, TRUE)
  /\ UNCHANGED <<cFields, isRecording>>

\* VOICE_RECORDING_COMPLETE delivered through chrome.runtime.onMessage
VoiceRecordingComplete ==
  /\ Command
  /\ Commit(processVoiceResponse(Engine), "VoiceRecordingComplete", NoTask, FALSE)
  /\ UNCHANGED <<cFields, isRecording>>

\* VOICE_RECORDING_COMPLETE delivered through the voice-recording port
PortVoiceRecordingComplete ==
  /\ Command
  /\ Commit(processVoiceResponse(Engine), "PortVoiceRecordingComplete", NoTask, FALSE)
  /\ UNCHANGED <<cFields, isRecording>>

\* FIELDS_DETECTED: this.detectedFields = message.fields; startConversation()
FieldsDetected ==
  /\ Command
  /\ \E fields \in FieldLists :
       Commit(startConversation([Engine EXCEPT !.fields = fields]),
              "FieldsDetected", NoTask, FALSE)
  /\ UNCHANGED <<cFields, isRecording>>


(***************************************************************************)
(* Continuations of the engine                                             *)
(***************************************************************************)
\* the catch block of handleMessage
handleMessageCatch(m) ==
  notifyPopup(setState(Caught(m), "ERROR"), Ev("ERROR", "", 0))

\* startProcessing after ANALYZE_PAGE has settled: r.ok = FALSE (no reply,
\* or success false) or r.fields the scanned list
analyzeDone(m, r) ==
  IF r.ok /\ Len(r.fields) > 0
    THEN startConversation(
           notifyPopup([m EXCEPT !.fields = r.fields],
                       Ev("FIELDS_DETECTED", "", Len(r.fields))))
    ELSE handleMessageCatch(
           Throw(IF r.ok THEN [m EXCEPT !.fields = r.fields] ELSE m))

\* FormAnalyzer.analyzePage answers ANALYZE_PAGE and keeps the list
AnalyzePageReply ==
  \E t \in PendingTasks("scan") :
    \E r \in {[ok |-> FALSE, fields |-> <<>>]}
               \cup {[ok |-> TRUE, fields |-> f] : f \in FieldLists} :
      /\ Commit(analyzeDone(Engine, r), "AnalyzePageReply", t, FALSE)
      /\ cFields' = IF r.ok THEN r.fields ELSE cFields
      /\ UNCHANGED <<isRecording, cmds>>

\* speakQuestion after fetch(/tts) has settled, then the rest of
\* askCurrentQuestion: PLAY_AUDIO is sent and not awaited, the 1 s timer is set
\* a variant in which a failed fetch(/tts) ends the turn with an error
speakQuestionDoneAbort(m, ok, tab) ==
  IF ok
    THEN Pending(IF tab THEN Pending(m, "playback", {}) ELSE m, "recTimer", {})
    ELSE setState(notifyPopup(m, Ev("ERROR", "", 0)), "ERROR")

speakQuestionDone(m, ok, tab) ==
  LET m1 == IF ok
              THEN (IF tab THEN Pending(m, "playback", {}) ELSE m)
              ELSE notifyPopup(m, Ev("STATUS_UPDATE", "tts_failed", 0))
  IN Pending(m1, "recTimer", {})

SpeakQuestionDone ==
  \E t \in PendingTasks("tts") :
    \E ok \in BOOLEAN, tab \in BOOLEAN :
      /\ Commit(speakQuestionDone(Engine, ok, tab), "SpeakQuestionDone", t, FALSE)
      /\ UNCHANGED <<cFields, isRecording, cmds>>

\* FormAnalyzer.playAudio: source.onended
PlayAudioEnded ==
  \E t \in PendingTasks("playback") :
    /\ Commit(Engine, "PlayAudioEnded", t, FALSE)
    /\ UNCHANGED <<cFields, isRecording, cmds>>

\* ConversationStateMachine.startVoiceRecording (the 1 s timer fired) with
\* FormAnalyzer.startVoiceRecording answering START_VOICE_RECORDING.
\* how: "noTab", "throws" (sendMessage rejects), "denied" (no microphone),
\* "granted"
\* a variant in which the recorder sets no 10 s timer of its own
startVoiceRecordingNoCap(m, how, recording) ==
  IF how = "noTab" THEN m
  ELSE IF how = "throws" THEN notifyPopup(m, Ev("ERROR", "", 0))
  ELSE Pending(m, "stopTimer", {})

startVoiceRecording(m, how, recording) ==
  IF how = "noTab" THEN m
  ELSE IF how = "throws" THEN notifyPopup(m, Ev("ERROR", "", 0))
  ELSE LET m1 == IF how = "granted" /\ ~recording
                   THEN Pending(m, "capTimer", {}) ELSE m
       IN Pending(m1, "stopTimer", {})

StartVoiceRecording ==
  \E t \in PendingTasks("recTimer") :
    \E how \in {"noTab", "throws", "denied", "granted"} :
      /\ Commit(startVoiceRecording(Engine, how, isRecording),
                "StartVoiceRecording", t, FALSE)
      /\ isRecording' = (isRecording \/ how = "granted")
      /\ UNCHANGED <<cFields, cmds>>

\* ConversationStateMachine.stopVoiceRecording (the 8 s timer fired) with
\* FormAnalyzer.stopVoiceRecording answering STOP_VOICE_RECORDING.
\* how: "noTab", "throws", "empty" (no audio chunk), "audio"
stopVoiceRecording(m, how, recording) ==
  IF how = "noTab" THEN m
  ELSE IF how = "audio" /\ recording THEN processVoiceResponse(m)
  ELSE notifyPopup(m, Ev("ERROR", "", 0))

StopVoiceRecording ==
  \E t \in PendingTasks("stopTimer") :
    \E how \in {"noTab", "throws", "empty", "audio"} :
      /\ Commit(stopVoiceRecording(Engine, how, isRecording),
                "StopVoiceRecording", t, FALSE)
      /\ isRecording' = (isRecording /\ how \in {"noTab", "throws"})
      /\ UNCHANGED <<cFields, cmds>>

\* FormAnalyzer.startVoiceRecording: the 10 s timer of a recording fired
RecorderCapTimer ==
  \E t \in PendingTasks("capTimer") :
    /\ Commit(Engine, "RecorderCapTimer", t, FALSE)
    /\ isRecording' = FALSE
    /\ UNCHANGED <<cFields, cmds>>

TranscribeReply ==
  \E t \in PendingTasks("transcribe") :
    \E r \in TranscribeReplies :
      /\ Commit(processVoiceDone(Engine, r), "TranscribeReply", t, FALSE)
      /\ UNCHANGED <<cFields, isRecording, cmds>>

\* the 1 s / 2 s timer set by processVoiceResponse fired
AskTimer ==
  \E t \in PendingTasks("askTimer") :
    /\ Commit(askCurrentQuestion(Engine), "AskTimer", t, FALSE)
    /\ UNCHANGED <<cFields, isRecording, cmds>>

ValidateReply ==
  \E t \in PendingTasks("validate") :
    \E r \in ValidateReplies(t.data) :
      /\ Commit(validateDone(Engine, r), "ValidateReply", t, FALSE)
      /\ UNCHANGED <<cFields, isRecording, cmds>>

\* fillForm after chrome.tabs.query has settled, up to its await of FILL_FORM
fillFormQueried(m, tab) ==
  IF tab THEN Pending(m, "fillSend", FillData(m.resp))
  ELSE notifyPopup(m, Ev("ERROR", "", 0))

FillFormTabQuery ==
  \E t \in PendingTasks("fillQuery") :
    \E tab \in BOOLEAN :
      /\ Commit(fillFormQueried(Engine, tab), "FillFormTabQuery", t, FALSE)
      /\ UNCHANGED <<cFields, isRecording, cmds>>

(***************************************************************************)
(* The writer: FormAnalyzer.fillForm                                       *)
(***************************************************************************)
HasKey(data, k) == \E e \in data : e[1] = k

ValueOf(data, k) == (CHOOSE e \in data : e[1] = k)[2]

\* responses[field.humanLabel] || responses[field.name] || responses[field.id]
ResponseKey(data, field) ==
  IF HasKey(data, field.humanLabel) THEN field.humanLabel
  ELSE IF HasKey(data, field.name) THEN field.name
  ELSE IF HasKey(data, field.id) THEN field.id
  ELSE Undefined

\* a variant of the loop that gives up at the first field whose fillField fails
FillOutcomeAbort(fields, data, failing) ==
  [i \in 1..Len(fields) |->
     LET k == ResponseKey(data, fields[i])
         v == IF k = Undefined \/ (failing # 0 /\ i > failing)
                THEN Undefined ELSE ValueOf(data, k)
     IN [id |-> fields[i].id, value |-> v,
         status |-> IF v = Undefined THEN "noanswer"
                    ELSE IF i = failing THEN "failed" ELSE "filled"]]

\* the loop of FormAnalyzer.fillForm; failing = index of a field whose
\* fillField fails (0: none)
FillOutcome(fields, data, failing) ==
  [i \in 1..Len(fields) |->
     LET k == ResponseKey(data, fields[i])
         v == IF k = Undefined THEN Undefined ELSE ValueOf(data, k)
     IN [id |-> fields[i].id, value |-> v,
         status |-> IF v = Undefined THEN "noanswer"
                    ELSE IF i = failing THEN "failed" ELSE "filled"]]

\* a variant that counts only the fields whose fillField failed
FillSucceededLax(outcome) ==
  \A i \in 1..Len(outcome) : outcome[i].status # "failed"

\* errorCount === 0
FillSucceeded(outcome) ==
  \A i \in 1..Len(outcome) : outcome[i].status = "filled"

\* fillForm after FILL_FORM has settled
fillFormDone(m, success) ==
  IF success
    THEN notifyPopup(setState(m, "COMPLETED"), Ev("FORM_FILLED", "", 0))
    ELSE notifyPopup(m, Ev("ERROR", "", 0))

FillFormReply ==
  \E t \in PendingTasks("fillSend") :
    \/ \E failing \in 0..Len(cFields) :
         LET outcome == FillOutcome(cFields, t.data, failing)
         IN /\ Commit(fillFormDone([Engine EXCEPT !.filled = outcome],
                                   FillSucceeded(outcome)),
                      "FillFormReply", t, FALSE)
            /\ UNCHANGED <<cFields, isRecording, cmds>>
    \/ /\ Commit(fillFormDone(Engine, FALSE), "FillFormReply", t, FALSE)
       /\ UNCHANGED <<cFields, isRecording, cmds>>

(***************************************************************************)
(* The specification                                                       *)
(***************************************************************************)
Init ==
  /\ currentState = "IDLE"
  /\ detectedFields = <<>>
  /\ fieldResponses = [l \in Labels |-> NoResponse]
  /\ currentFieldIndex = 0
  /\ retryCount = 0
  /\ cFields = <<>>
  /\ isRecording = FALSE
  /\ page = <<>>
  /\ tasks = EmptyBag
  /\ events = <<>>
  /\ stateLog = <<"IDLE">>
  /\ last = [op |-> "Init", old |-> FALSE]
  /\ passStart = 0
  /\ lastInvalid = {}
  /\ cycles = NoCycles
  /\ popupOpen = FALSE
  /\ stopBtn = FALSE
  /\ question = <<>>
  /\ random = 0
  /\ cmds = 0

Next ==
  \/ StartProcessing
  \/ StopProcessing
  \/ ClearData
  \/ VoiceRecordingComplete
  \/ PortVoiceRecordingComplete
  \/ FieldsDetected
  \/ AnalyzePageReply
  \/ SpeakQuestionDone
  \/ PlayAudioEnded
  \/ StartVoiceRecording
  \/ StopVoiceRecording
  \/ RecorderCapTimer
  \/ TranscribeReply
  \/ AskTimer
  \/ ValidateReply
  \/ FillFormTabQuery
  \/ FillFormReply

Spec == Init /\ [][Next]_vars

\* The behaviours in which the engine receives only the commands the popup
\* sends (START_PROCESSING, STOP_PROCESSING, CLEAR_DATA): no FIELDS_DETECTED
\* or VOICE_RECORDING_COMPLETE message is delivered.
NextPopup ==
  \/ StartProcessing
  \/ StopProcessing
  \/ ClearData
  \/ AnalyzePageReply
  \/ SpeakQuestionDone
  \/ PlayAudioEnded
  \/ StartVoiceRecording
  \/ StopVoiceRecording
  \/ RecorderCapTimer
  \/ TranscribeReply
  \/ AskTimer
  \/ ValidateReply
  \/ FillFormTabQuery
  \/ FillFormReply

SpecPopup == Init /\ [][NextPopup]_vars

\* The same behaviours, with the browser firing the recorder's 10 s timer:
\* a timer set with setTimeout in the content script runs once it is due.
SpecRecorder == SpecPopup /\ WF_vars(RecorderCapTimer)

(***************************************************************************)
(* Question generation: ConversationStateMachine.generateQuestion.  A text  *)
(* is the sequence of its literal parts and interpolated values.           *)
(***************************************************************************)
FieldTypes == {"email", "tel", "password", "textarea", "text", "number", "date"}

questionTemplates(fieldLabel) ==
  [email |-> << <<"What is your email address for ", fieldLabel, "?">>,
                <<"Please provide your email for ", fieldLabel>>,
                <<"What email should I use for ", fieldLabel, "?">> >>,
   tel |-> << <<"What is your phone number for ", fieldLabel, "?">>,
              <<"Please provide your phone number for ", fieldLabel>>,
              <<"What phone number should I use for ", fieldLabel, "?">> >>,
   password |-> << <<"Please provide a password for ", fieldLabel>>,
                   <<"What password would you like to use for ", fieldLabel, "?">>,
                   <<"Please enter your password for ", fieldLabel>> >>,
   textarea |-> << <<"Please provide ", fieldLabel>>,
                   <<"What would you like to enter for ", fieldLabel, "?">>,
                   <<"Please describe ", fieldLabel>> >>,
   text |-> << <<"What is your ", fieldLabel, "?">>,
               <<"Please provide ", fieldLabel>>,
               <<"What should I enter for ", fieldLabel, "?">> >>]

\* a variant without the fallback for types that have no templates
generateQuestionNoFallback(field, rnd) ==
  LET all == questionTemplates(field.humanLabel)
  IN IF field.type \in DOMAIN all THEN all[field.type][rnd + 1]
     ELSE <<Undefined>>

\* rnd is the value of Math.floor(Math.random() * templates.length)
generateQuestion(field, rnd) ==
  LET all == questionTemplates(field.humanLabel)
      templates == IF field.type \in DOMAIN all THEN all[field.type]
                   ELSE all["text"]
  IN templates[rnd + 1]

\* the text contains the value x
Contains(text, x) == \E i \in 1..Len(text) : text[i] = x

\* A session that is about to ask the question for its only field, for every
\* field type and label, in the first pass or in a correction pass (the
\* field's answer was then found invalid for the reason "r").
InitQuestion ==
  /\ currentState \in {"QUESTIONING", "CORRECTING"}
  /\ \E type \in FieldTypes, label \in Labels :
       /\ detectedFields = <<[humanLabel |-> label, type |-> type,
                              name |-> "n1", id |-> "f1"]>>
       /\ fieldResponses =
            [l \in Labels |->
               IF currentState = "CORRECTING" /\ l = label
                 THEN [has |-> TRUE, original |-> "t", normalized |-> "n",
                       valid |-> "no", reason |-> "r", fieldId |-> "f1",
                       fieldType |-> type]
                 ELSE NoResponse]
  /\ currentFieldIndex = 0
  /\ retryCount = 0
  /\ cFields = detectedFields
  /\ isRecording = FALSE
  /\ page = <<>>
  /\ tasks = EmptyBag
  /\ events = <<>>
  /\ stateLog = <<currentState>>
  /\ last = [op |-> "Init", old |-> FALSE]
  /\ passStart = 0
  /\ lastInvalid = IF currentState = "CORRECTING"
                     THEN {detectedFields[1].humanLabel} ELSE {}
  /\ cycles = NoCycles
  /\ popupOpen = FALSE
  /\ stopBtn = FALSE
  /\ question = <<>>
  /\ random = 0
  /\ cmds = 0

\* askCurrentQuestion calls generateQuestion for the field under the cursor
\* (a timer of the retry path or of the next pass calls it again)
GenerateQuestion ==
  /\ currentState \in {"QUESTIONING", "CORRECTING"}
  /\ currentFieldIndex < Len(detectedFields)
  /\ \E rnd \in 0..2 :
       /\ random' = rnd
       /\ question' = generateQuestion(detectedFields[currentFieldIndex + 1], rnd)
  /\ last' = [op |-> "GenerateQuestion", old |-> FALSE]
  /\ UNCHANGED <<currentState, detectedFields, fieldResponses,
                 currentFieldIndex, retryCount, cFields, isRecording, page,
                 tasks, events, stateLog, passStart, lastInvalid, cycles,
                 popupOpen, stopBtn, cmds>>

SpecQuestion == InitQuestion /\ [][GenerateQuestion]_vars

(***************************************************************************)
(* Properties                                                              *)
(***************************************************************************)
HasEvent(type) == \E i \in 1..Len(events) : events[i].type = type

\* the documented chain of state transitions
Chain ==
  { <<"IDLE", "ANALYZING">>, <<"ANALYZING", "QUESTIONING">>,
    <<"QUESTIONING", "VALIDATING">>, <<"VALIDATING", "CORRECTING">>,
    <<"CORRECTING", "VALIDATING">>, <<"VALIDATING", "FILLING">>,
    <<"FILLING", "COMPLETED">> }

\* the field at 1-based position i of the engine's list has a stored answer
Answered(i) == fieldResponses[detectedFields[i].humanLabel].has

\* the last action was a transcription that failed (the catch block ran)
TranscriptionFailed ==
  /\ last.op = "TranscribeReply"
  /\ events # <<>>
  /\ events[1].type = "ERROR"

\* C1: once a scan has returned a non-empty field list, every change of the
\* session state made by a command, a message or a continuation of the
\* current session is a step of the chain IDLE -> ANALYZING -> QUESTIONING ->
\* VALIDATING -> (CORRECTING -> VALIDATING)* -> FILLING -> COMPLETED, a stop or
\* clear (to IDLE) or a failure (to ERROR).
C1_StateChain ==
  (cFields # <<>> /\ ~last.old) =>
    \A i \in 1..(Len(stateLog) - 1) :
      \/ stateLog[i + 1] = stateLog[i]
      \/ stateLog[i + 1] = "ERROR"
      \/ stateLog[i + 1] = "IDLE" /\ last.op \in {"StopProcessing", "ClearData"}
      \/ <<stateLog[i], stateLog[i + 1]>> \in Chain

\* C2: when stopProcessing has just been handled in QUESTIONING and the
\* outstanding transcription then completes, its result is discarded: no entry
\* of fieldResponses changes, the cursor does not move and no ANSWER_RECEIVED
\* is sent.
C2_StaleResultDiscarded ==
  [][ ( /\ last.op = "StopProcessing"
        /\ stateLog = <<"QUESTIONING", "IDLE">>
        /\ last'.op = "TranscribeReply"
        /\ last'.old )
      => /\ fieldResponses' = fieldResponses
         /\ currentFieldIndex' = currentFieldIndex
         /\ \A i \in 1..Len(events') : events'[i].type # "ANSWER_RECEIVED" ]_vars

\* C3: after a stop or clear the state stays IDLE whichever operation or timer
\* of the abandoned session completes: a continuation of an abandoned session
\* that runs in IDLE leaves the state IDLE.
C3_StaysIdle ==
  [][ (currentState = "IDLE" /\ last'.old) => currentState' = "IDLE" ]_vars

\* C4: in a correction pass over two distinctly labelled fields, a question is
\* asked only for a field that the last validation did not report valid.
C4_OnlyInvalidAsked ==
  ( /\ currentState = "CORRECTING"
    /\ ~last.old
    /\ detectedFields = <<FEmail, FPhone>> )
  => \A i \in 1..Len(events) :
       events[i].type = "QUESTION_ASKED"
         => fieldResponses[events[i].field].valid # "yes"

C6_FillFailureIsError ==
  ( /\ last.op \in {"FillFormTabQuery", "FillFormReply"}
    /\ ~last.old
    /\ HasEvent("ERROR") )
  => currentState = "ERROR"

\* C7: COMPLETED is entered, and FORM_FILLED sent, only by the continuation
\* of FILL_FORM and only when the writer filled every field of its list: each
\* had an answer with a defined value and none failed to fill.
C7_CompletedOnlyIfAllFilled ==
  (HasEvent("FORM_FILLED") \/ (Len(stateLog) > 1 /\ currentState = "COMPLETED"))
    => /\ last.op = "FillFormReply"
       /\ HasEvent("FORM_FILLED") /\ currentState = "COMPLETED"
       /\ Len(page) = Len(cFields)
       /\ \A i \in 1..Len(page) :
            /\ page[i].id = cFields[i].id
            /\ page[i].status = "filled"
            /\ page[i].value # Undefined

\* C7 witness: a form of two fields has been filled and the session is
\* COMPLETED.
C7_TwoFieldsFilled ==
  /\ HasEvent("FORM_FILLED")
  /\ currentState = "COMPLETED"
  /\ Len(page) = 2

\* C8: when an empty field list reaches the engine, by the ANALYZE_PAGE reply
\* or by FIELDS_DETECTED, QUESTIONING is not entered, no question is asked and
\* validation is not started.
C8_EmptyListNoQuestioning ==
  (last.op \in {"AnalyzePageReply", "FieldsDetected"} /\ detectedFields = <<>>)
    => /\ \A i \in 2..Len(stateLog) : stateLog[i] # "QUESTIONING"
       /\ ~HasEvent("QUESTION_ASKED")
       /\ ~HasEvent("VALIDATION_STARTED")

\* C9: when validateResponses sends its request, every field from the one the
\* current pass started at to the end of the list has an entry in
\* fieldResponses; and an answer is stored for the field at the cursor, after
\* every earlier field of the pass has its entry (increasing field order).
C9_ValidationAfterAllAnswered ==
  /\ HasEvent("VALIDATION_STARTED")
       => \A i \in (passStart + 1)..Len(detectedFields) : Answered(i)
  /\ \A k \in 1..Len(events) :
       events[k].type = "ANSWER_RECEIVED"
         => /\ events[k].current = currentFieldIndex
            /\ events[k].current > passStart
            /\ events[k].current <= Len(detectedFields)
            /\ \A i \in (passStart + 1)..events[k].current : Answered(i)

\* C9 witness: validation is requested at the end of a correction pass that
\* started at the second of two fields.
C9_ValidationAfterCorrection ==
  /\ HasEvent("VALIDATION_STARTED")
  /\ HasEvent("ANSWER_RECEIVED")
  /\ stateLog = <<"CORRECTING", "VALIDATING">>
  /\ passStart = 1
  /\ Len(detectedFields) = 2

\* C10: after a successful validation call of the current session that
\* reported some answered field valid, an answered field that is missing from
\* the result map (it is left without a verdict) sends the session to
\* correction: it is not sent to filling.
C10_MissingResultIsInvalid ==
  ( /\ last.op = "ValidateReply"
    /\ ~last.old
    /\ HasEvent("VALIDATION_COMPLETED")
    /\ \E l \in Labels : fieldResponses[l].has /\ fieldResponses[l].valid = "yes" )
  => \A l \in Labels :
       (fieldResponses[l].has /\ fieldResponses[l].valid = "unknown")
         => currentState = "CORRECTING"

\* the last action was a validation request that failed at transport level
ValidationFailed ==
  /\ last.op = "ValidateReply"
  /\ events # <<>>
  /\ events[1].type = "ERROR"

\* C11: when the validation request fails (rejected or not ok), no entry of
\* fieldResponses is changed (no answer is marked valid), the service is not
\* called again, and the session goes to FILLING with fillForm pending; an
\* answer that has no verdict still carries its raw transcript as the value
\* to fill.
C11_TransportFailureFillsRaw ==
  [][ ValidationFailed'
      => /\ fieldResponses' = fieldResponses
         /\ stateLog' = <<currentState, "FILLING">>
         /\ BagCardinality(tasks') = BagCardinality(tasks)
         /\ \E t \in DOMAIN tasks' : t.kind = "fillQuery" /\ t.old = last'.old
         /\ \A t \in DOMAIN tasks' :
              t.kind = "validate" => (t \in DOMAIN tasks /\ tasks'[t] <= tasks[t])
         /\ \A l \in Labels :
              (fieldResponses'[l].has /\ fieldResponses'[l].valid = "unknown")
                => fieldResponses'[l].normalized = fieldResponses'[l].original ]_vars

\* C11 witness: the request of a current session failed in VALIDATING with an
\* answer awaiting its verdict.
C11_FailedInValidating ==
  /\ ValidationFailed
  /\ ~last.old
  /\ stateLog = <<"VALIDATING", "FILLING">>
  /\ \E l \in Labels : fieldResponses[l].has /\ fieldResponses[l].valid = "unknown"

\* C12: after a successful validation reply in which some field's result is
\* invalid (startCorrection is entered), the session is left in CORRECTING:
\* FILLING is not reached from that reply.
C12_InvalidNeverFills ==
  ( /\ last.op = "ValidateReply"
    /\ HasEvent("VALIDATION_COMPLETED")
    /\ \E i \in 2..Len(stateLog) : stateLog[i] = "CORRECTING" )
  => currentState = "CORRECTING"

\* a validation reply of the running session was merged by the last action
ValidationMerged ==
  /\ last.op = "ValidateReply"
  /\ ~last.old
  /\ HasEvent("VALIDATION_COMPLETED")

\* C13: when a validation pass of a session reports the same non-empty set of
\* invalid fields as the pass before it, the engine does not start another
\* correction pass: it does not enter CORRECTING and asks no question.
C13_SameInvalidSetStops ==
  [][ ( /\ ValidationMerged'
        /\ cmds' = 1
        /\ lastInvalid # {}
        /\ lastInvalid' = lastInvalid )
      => /\ currentState' # "CORRECTING"
         /\ ~HasEvent("QUESTION_ASKED")' ]_vars

\* C14: when an answer has just been stored and the cursor advanced, the
\* retry counter is 0: the failed attempts on the answered field are not
\* carried over to the next field.
C14_RetryCountPerField ==
  ( /\ last.op = "TranscribeReply"
    /\ ~last.old
    /\ cmds = 1
    /\ HasEvent("ANSWER_RECEIVED") )
  => retryCount = 0

\* C15: an empty transcription is not an answer: no stored answer has the
\* empty text as its original value.
C15_EmptyTextNotStored ==
  \A l \in Labels :
    fieldResponses[l].has => fieldResponses[l].original # ""

\* C16: while the session is in QUESTIONING or CORRECTING something is
\* outstanding (a question, a recording, a transcription or a retry timer):
\* a recording failure leaves a retry pending or ends the session in ERROR.
C16_RecordingFailureRetried ==
  currentState \in {"QUESTIONING", "CORRECTING"}
    => (tasks # EmptyBag \/ isRecording)

\* the pending steps of question/record/transcribe chains: speech request,
\* 1 s timer before the recording, 8 s timer of the recording window,
\* transcription request, timer before the next question
TurnTasks ==
  {t \in DOMAIN tasks :
     t.kind \in {"tts", "recTimer", "stopTimer", "transcribe", "askTimer"}}

TurnsActive == BagCardinality([t \in TurnTasks |-> tasks[t]])

\* C17: at any instant at most one question/record/transcribe chain is
\* outstanding in the engine.
C17_OneTurnAtATime == TurnsActive <= 1

\* the last action sent START_VOICE_RECORDING and the content script answered
\* it: the 8 s timer of the recording window is set
RecordingRequested ==
  /\ last.op = "StartVoiceRecording"
  /\ PendingTasks("stopTimer") # {}

\* C18: START_VOICE_RECORDING is not sent while the playback of the question
\* (PLAY_AUDIO) has not ended.
C18_RecordAfterPlayback ==
  (RecordingRequested /\ cmds = 1) => PendingTasks("playback") = {}

\* C19: a START_PROCESSING command received while the session is not IDLE
\* either leaves the session state unchanged or leaves it as
\* STOP_PROCESSING followed by START_PROCESSING would: same state, answers,
\* cursor, retry counter and field list.
C19_StartIsStopThenStart ==
  [][ (last'.op = "StartProcessing" /\ currentState # "IDLE")
      => LET m == startProcessing(stopProcessing(Engine))
         IN \/ UNCHANGED <<currentState, detectedFields, fieldResponses,
                           currentFieldIndex, retryCount>>
            \/ /\ currentState' = m.st
               /\ detectedFields' = m.fields
               /\ fieldResponses' = m.resp
               /\ currentFieldIndex' = m.idx
               /\ retryCount' = m.retry ]_vars

\* the session started by the latest START_PROCESSING is asking its questions:
\* a step of its own question/record/transcribe chain is pending
NewSessionAsking ==
  /\ currentState \in {"QUESTIONING", "CORRECTING"}
  /\ \E t \in TurnTasks : ~t.old

\* C20: a transcription that belongs to a session abandoned by a later
\* START_PROCESSING stores no answer and moves no cursor in the new session.
C20_EarlierSessionDiscarded ==
  [][ (NewSessionAsking /\ last'.op = "TranscribeReply" /\ last'.old)
      => /\ fieldResponses' = fieldResponses
         /\ currentFieldIndex' = currentFieldIndex ]_vars

\* C21: right after STOP_PROCESSING or CLEAR_DATA the session is empty: state
\* IDLE, no field list, no answers, cursor 0, retry counter 0.
C21_StopAndClearDiscardSession ==
  last.op \in {"StopProcessing", "ClearData"}
    => /\ currentState = "IDLE"
       /\ detectedFields = <<>>
       /\ fieldResponses = [l \in Labels |-> NoResponse]
       /\ currentFieldIndex = 0
       /\ retryCount = 0

\* one session, started by START_PROCESSING with a scan that found fields, in
\* which no failure was reported and no validation found a field invalid
CleanSession ==
  /\ cmds = 1
  /\ cFields # <<>>
  /\ ~cycles.failed

\* C22: in a session where every recording and transcription succeeds and the
\* first validation reports all fields valid, the questions are asked once
\* each in field order and answered once each in field order (the k-th
\* question is for field k, the k-th answer for field k, the cursor counts the
\* answers), the session is never in CORRECTING, validation starts and the
\* form is filled only after exactly N questions and N answers, and a
\* successful commit leaves the session in COMPLETED.
C22_OneCyclePerField ==
  CleanSession
    => /\ currentState # "CORRECTING"
       /\ \A i \in 1..Len(events) :
            /\ events[i].type = "QUESTION_ASKED"
                 => /\ events[i].current = cycles.asked
                    /\ events[i].current = currentFieldIndex + 1
                    /\ events[i].field
                         = detectedFields[cycles.asked].humanLabel
            /\ events[i].type = "ANSWER_RECEIVED"
                 => /\ events[i].current = cycles.answered
                    /\ events[i].field
                         = detectedFields[cycles.answered].humanLabel
       /\ currentState = "QUESTIONING"
            => /\ cycles.answered = currentFieldIndex
               /\ cycles.asked \in {currentFieldIndex, currentFieldIndex + 1}
               /\ cycles.asked <= Len(detectedFields)
       /\ currentState \in {"VALIDATING", "FILLING", "COMPLETED"}
            => /\ cycles.asked = Len(detectedFields)
               /\ cycles.answered = Len(detectedFields)
       /\ (last.op = "FillFormReply" /\ page # <<>> /\ FillSucceeded(page))
            => currentState = "COMPLETED"

\* C22 witness: a clean session over two fields has reached COMPLETED after
\* two questions and two answers.
C22_TwoCyclesCompleted ==
  /\ CleanSession
  /\ currentState = "COMPLETED"
  /\ Len(detectedFields) = 2
  /\ cycles.asked = 2
  /\ cycles.answered = 2

\* C23: after a validation reply was merged, every answer for which the
\* service returned a result holds a normalized value (the one returned,
\* empty or not): it is never left without one.
C23_NormalizedValueKept ==
  (ValidationMerged /\ cmds = 1)
    => \A l \in Labels :
         (fieldResponses[l].has /\ fieldResponses[l].valid # "unknown")
           => fieldResponses[l].normalized # Undefined

\* the writer has a value for the field at position i of its list: the answer
\* stored under the field's label has a normalized value
HasValue(i) ==
  /\ fieldResponses[cFields[i].humanLabel].has
  /\ fieldResponses[cFields[i].humanLabel].normalized # Undefined

\* C24: when FormAnalyzer.fillForm has run, its report has one entry per
\* detected field in the order of the list; every field that has a value was
\* attempted (written or failed) whatever happened to the fields before it;
\* and success is reported (FORM_FILLED, COMPLETED) exactly when no field
\* failed, a field without a value counting as failed.
C24_EveryFieldAttempted ==
  (last.op = "FillFormReply" /\ page # <<>> /\ cmds = 1)
    => /\ Len(page) = Len(cFields)
       /\ \A i \in 1..Len(page) :
            /\ page[i].id = cFields[i].id
            /\ HasValue(i) <=> page[i].status \in {"filled", "failed"}
       /\ HasEvent("FORM_FILLED")
            <=> \A i \in 1..Len(page) : page[i].status = "filled"
       /\ currentState = "COMPLETED"
            <=> \A i \in 1..Len(page) : page[i].status = "filled"

\* C24 witness: the first of two fields failed and the second was written;
\* the report is a failure.
C24_FirstFailedSecondFilled ==
  /\ last.op = "FillFormReply"
  /\ cmds = 1
  /\ Len(page) = 2
  /\ page[1].status = "failed"
  /\ page[2].status = "filled"
  /\ HasEvent("ERROR")

\* C25: when the last field of the list has been answered and validation
\* starts, the engine holds one answer per detected field, also when two
\* fields carry the same label.
C25_AnswerPerField ==
  ( /\ last.op = "TranscribeReply"
    /\ cmds = 1
    /\ HasEvent("VALIDATION_STARTED")
    /\ passStart = 0 )
  => Cardinality({l \in Labels : fieldResponses[l].has}) = Len(detectedFields)

\* C26: while the questions of a session are being asked (no failure so far),
\* a field has a stored answer exactly when a recording made for its question
\* has been transcribed, i.e. when its position is among the answers received.
C26_AnswerIffTranscribed ==
  (CleanSession /\ currentState = "QUESTIONING")
    => \A i \in 1..Len(detectedFields) : Answered(i) <=> i <= cycles.answered

\* C27: no timer, recording result, transcription, validation or commit
\* completion changes the state of a session that is in ERROR.
C27_ErrorLeftOnlyByCommand ==
  [][ ( /\ currentState = "ERROR"
        /\ last'.op \in {"AskTimer", "StartVoiceRecording", "StopVoiceRecording",
                         "TranscribeReply", "ValidateReply",
                         "FillFormTabQuery", "FillFormReply"} )
      => currentState' = "ERROR" ]_vars

\* what a handler leaves behind in the engine: its fields, the continuations
\* and timers it set, and whether it ended with an exception
Outcome(m) == <<m.st, m.fields, m.resp, m.idx, m.retry, m.new, m.threw>>

\* the handler h leaves the same outcome with and without a popup
SameOutcome(h(_)) == Outcome(h(EngineWith(TRUE))) = Outcome(h(EngineWith(FALSE)))

\* C28: in every reachable state, every command handler, and every
\* continuation that is pending, for every input it can receive, leaves the
\* same state, field list, answers, cursor, retry counter and pending work
\* whether or not a popup receives the messages it sends.
C28_IndependentOfPopup ==
  /\ SameOutcome(startProcessing)
  /\ SameOutcome(stopProcessing)
  /\ SameOutcome(clearData)
  /\ SameOutcome(processVoiceResponse)
  /\ \A fields \in FieldLists :
       SameOutcome(LAMBDA m : startConversation([m EXCEPT !.fields = fields]))
  /\ PendingTasks("askTimer") # {} => SameOutcome(askCurrentQuestion)
  /\ PendingTasks("scan") # {}
       => \A r \in {[ok |-> FALSE, fields |-> <<>>]}
                     \cup {[ok |-> TRUE, fields |-> f] : f \in FieldLists} :
            SameOutcome(LAMBDA m : analyzeDone(m, r))
  /\ PendingTasks("tts") # {}
       => \A ok \in BOOLEAN, tab \in BOOLEAN :
            SameOutcome(LAMBDA m : speakQuestionDone(m, ok, tab))
  /\ PendingTasks("recTimer") # {}
       => \A how \in {"noTab", "throws", "denied", "granted"} :
            SameOutcome(LAMBDA m : startVoiceRecording(m, how, isRecording))
  /\ PendingTasks("stopTimer") # {}
       => \A how \in {"noTab", "throws", "empty", "audio"} :
            SameOutcome(LAMBDA m : stopVoiceRecording(m, how, isRecording))
  /\ PendingTasks("transcribe") # {}
       => \A r \in TranscribeReplies :
            SameOutcome(LAMBDA m : processVoiceDone(m, r))
  /\ \A t \in PendingTasks("validate") : \A r \in ValidateReplies(t.data) :
       SameOutcome(LAMBDA m : validateDone(m, r))
  /\ PendingTasks("fillQuery") # {}
       => \A tab \in BOOLEAN :
            SameOutcome(LAMBDA m : fillFormQueried(m, tab))
  /\ PendingTasks("fillSend") # {}
       => \A success \in BOOLEAN :
            SameOutcome(LAMBDA m : fillFormDone(m, success))

\* C28 witness: in a session started from the popup, an answer was stored,
\* its ANSWER_RECEIVED message sent, and the session went on to validation
\* while no popup was listening.
C28_AnsweredWithoutPopup ==
  /\ last.op = "TranscribeReply"
  /\ cmds = 1
  /\ cFields # <<>>
  /\ HasEvent("ANSWER_RECEIVED")
  /\ HasEvent("VALIDATION_STARTED")
  /\ ~popupOpen

\* C29: once a session has ended in COMPLETED or ERROR the engine holds no
\* collected answer.
C29_NoAnswersAfterSession ==
  (currentState \in {"COMPLETED", "ERROR"} /\ cmds = 1)
    => \A l \in Labels : ~fieldResponses[l].has

\* C30: a recorder that is recording is eventually stopped.
C30_RecordingEventuallyStopped == isRecording ~> ~isRecording

\* C30 witness: the engine's stop request never reached the recorder (no tab,
\* or the send failed) and the recorder is still recording, with only its own
\* 10 s timer left to end it.
C30_StopRequestLost ==
  /\ last.op = "StopVoiceRecording"
  /\ isRecording
  /\ PendingTasks("stopTimer") = {}
  /\ PendingTasks("capTimer") # {}

\* C31: two calls of generateQuestion for the same field return the same
\* text, and a call leaves the session state as it was.
C31_SameQuestionEveryCall ==
  [][ (question # <<>> /\ last'.op = "GenerateQuestion")
      => /\ question' = question
         /\ UNCHANGED <<currentState, detectedFields, fieldResponses,
                        currentFieldIndex, retryCount>> ]_vars

\* C32: a transcription failure that leaves the retry budget unexhausted
\* changes neither the answers nor the cursor nor the state, counts one retry
\* and sets the timer of the next question; and when that timer fires next in
\* a session started once from the popup, the question asked is for the field
\* under the unchanged cursor.
C32_FailedAttemptKeepsField ==
  [][ /\ (TranscriptionFailed' /\ retryCount' <= maxRetries)
           => /\ fieldResponses' = fieldResponses
              /\ currentFieldIndex' = currentFieldIndex
              /\ currentState' = currentState
              /\ retryCount' = retryCount + 1
              /\ \E t \in PendingTasks("askTimer")' :
                   tasks'[t] = Count(tasks, t) + 1
      /\ ( /\ TranscriptionFailed
           /\ retryCount <= maxRetries
           /\ cmds = 1
           /\ cFields # <<>>
           /\ last'.op = "AskTimer" )
           => /\ fieldResponses' = fieldResponses
              /\ currentFieldIndex' = currentFieldIndex
              /\ Len(events') = 1
              /\ events'[1].type = "QUESTION_ASKED"
              /\ events'[1].current = currentFieldIndex + 1
              /\ events'[1].field
                   = detectedFields[currentFieldIndex + 1].humanLabel ]_vars

\* C32 witness: in a session started once, the transcription for the second
\* field has failed after the first field was answered; the retry is pending.
C32_SecondFieldFailed ==
  /\ TranscriptionFailed
  /\ cmds = 1
  /\ cFields # <<>>
  /\ retryCount = 1
  /\ currentFieldIndex = 1
  /\ Answered(1)
  /\ PendingTasks("askTimer") # {}

\* C33: when a validation reply has started a correction pass, the cursor is
\* on the invalid field with the smallest position in the field list: no
\* field reported invalid lies before the cursor.
C33_CorrectionInFieldOrder ==
  (ValidationMerged /\ cmds = 1 /\ currentState = "CORRECTING")
    => \A i \in 1..Len(detectedFields) :
         detectedFields[i].humanLabel \in lastInvalid
           => currentFieldIndex + 1 <= i

\* C34: the question generated in a correction pass contains the reason the
\* validation gave for the field under the cursor.
C34_CorrectionQuestionHasReason ==
  (last.op = "GenerateQuestion" /\ currentState = "CORRECTING")
    => Contains(question,
                fieldResponses[detectedFields[currentFieldIndex + 1].humanLabel].reason)

\* the templates generateQuestion chooses from for a field type
TemplatesFor(type, label) ==
  LET all == questionTemplates(label)
      key == IF type \in DOMAIN all THEN type ELSE "text"
  IN {all[key][i] : i \in 1..Len(all[key])}

\* C36: for every field type and label the generated question contains the
\* label, and it is one of the templates of the field's type, or of the type
\* "text" when the type has no templates of its own.
C36_QuestionContainsLabel ==
  last.op = "GenerateQuestion"
    => LET field == detectedFields[currentFieldIndex + 1]
       IN /\ Contains(question, field.humanLabel)
          /\ question \in TemplatesFor(field.type, field.humanLabel)
          /\ field.type \notin {"email", "tel", "password", "textarea", "text"}
               => question \in { <<"What is your ", field.humanLabel, "?">>,
                                 <<"Please provide ", field.humanLabel>>,
                                 <<"What should I enter for ", field.humanLabel, "?">> }

\* C36 witness: a question was generated for a field of type "number", which
\* has no templates of its own.
C36_UnknownTypeAsked ==
  /\ last.op = "GenerateQuestion"
  /\ detectedFields[1].type = "number"
  /\ question = <<"What should I enter for ", detectedFields[1].humanLabel, "?">>

\* the number of pending continuations of a kind
Outstanding(B, kind) ==
  LET S == {t \in DOMAIN B : t.kind = kind}
  IN BagCardinality([t \in S |-> B[t]])

\* how often the last action called setState(VALIDATING)
EnteredValidating ==
  Cardinality({i \in 2..Len(stateLog) : stateLog[i] = "VALIDATING"})

\* C35: every step sends as many validation requests as it enters VALIDATING
\* (one per entry, none otherwise), and the request of an entry carries the
\* raw transcript and the type of every stored answer.
C35_OneBatchedRequest ==
  [][ /\ Outstanding(tasks', "validate")
           + (IF last'.op = "ValidateReply" THEN 1 ELSE 0)
           = Outstanding(tasks, "validate") + EnteredValidating'
      /\ EnteredValidating' \in {0, 1}
      /\ EnteredValidating' = 1
           => \E t \in PendingTasks("validate")' :
                /\ Count(tasks', t) > Count(tasks, t) \/ last'.op = "ValidateReply"
                /\ \A l \in Labels :
                     fieldResponses'[l].has
                       <=> <<l, fieldResponses'[l].original,
                             fieldResponses'[l].fieldType>> \in t.data
                /\ Cardinality(t.data)
                     = Cardinality({l \in Labels : fieldResponses'[l].has}) ]_vars

\* C35 witness: VALIDATING was entered with two stored answers and one request
\* carrying both is outstanding.
C35_TwoAnswersOneRequest ==
  /\ EnteredValidating = 1
  /\ Outstanding(tasks, "validate") = 1
  /\ \A l \in Labels : fieldResponses[l].has
  /\ \E t \in PendingTasks("validate") : Cardinality(t.data) = 2
\* C37: in every reachable state the cursor is within the field list,
\* 0 <= currentFieldIndex <= length of detectedFields, after any sequence of
\* start, stop, clear, field-list, recording-result and validation events.
C37_CursorWithinList ==
  /\ currentFieldIndex >= 0
  /\ currentFieldIndex <= Len(detectedFields)

\* the states in which no question is outstanding
NoQuestionStates ==
  {"IDLE", "ANALYZING", "VALIDATING", "FILLING", "COMPLETED", "ERROR"}

\* C38: a recording result delivered by VOICE_RECORDING_COMPLETE or through
\* the voice-recording port while no question is outstanding changes neither
\* the state, nor the answers, nor the cursor, nor the retry counter: neither
\* the delivery nor the completion of its transcription, the only outstanding
\* one, does.
C38_ResultWithoutQuestionIgnored ==
  [][ /\ ( /\ currentState \in NoQuestionStates
           /\ last'.op \in {"VoiceRecordingComplete", "PortVoiceRecordingComplete"} )
         => UNCHANGED <<currentState, fieldResponses, currentFieldIndex, retryCount>>
      /\ ( /\ currentState \in NoQuestionStates
           /\ last.op \in {"VoiceRecordingComplete", "PortVoiceRecordingComplete"}
           /\ Outstanding(tasks, "transcribe") = 1
           /\ last'.op = "TranscribeReply" )
         => UNCHANGED <<currentState, fieldResponses, currentFieldIndex, retryCount>>
    ]_vars

\* C39: for a popup that is open from the start command on and receives
\* every event, the Stop button is shown while the session is in QUESTIONING
\* or CORRECTING after a transcription reply was handled, also when the
\* reply was a failure that the engine retries.
C39_StopShownAfterTranscription ==
  ( /\ cmds = 1
    /\ last.op = "TranscribeReply"
    /\ currentState \in {"QUESTIONING", "CORRECTING"} )
  => stopBtn

\* the status message of speakQuestion's catch: `TTS failed, please read: ...`
TtsFailed == Ev("STATUS_UPDATE", "tts_failed", 0)

\* C40: the settling of the text-to-speech call, failed or not, leaves the
\* state, the fields, the answers, the cursor and the retry counter alone and
\* sets the timer that opens the recording window; it sends nothing but, on
\* failure, the one text-only status, never an error.
C40_TtsFailureKeepsTurn ==
  [][ last'.op = "SpeakQuestionDone"
      => /\ UNCHANGED <<currentState, detectedFields, fieldResponses,
                        currentFieldIndex, retryCount>>
         /\ Outstanding(tasks', "recTimer") = Outstanding(tasks, "recTimer") + 1
         /\ Outstanding(tasks', "tts") = Outstanding(tasks, "tts") - 1
         /\ events' \in {<<>>, <<TtsFailed>>}
    ]_vars

\* C40 witness: in a single session the text-to-speech call for the first
\* question failed; the status was sent, the session is still asking the
\* same field and the recording timer is set.
C40_TtsFailedStillRecording ==
  /\ cmds = 1
  /\ last.op = "SpeakQuestionDone"
  /\ events = <<TtsFailed>>
  /\ currentState = "QUESTIONING"
  /\ currentFieldIndex = 0
  /\ Len(detectedFields) >= 1
  /\ Outstanding(tasks, "recTimer") = 1

====
